---- MODULE Spec2Model ----
(***************************************************************************)
(* Warehouse robot fleet: the orchestrator of Backend.py (task and robot   *)
(* rows, log, MQTT consumers, task creation) and the robot agent of        *)
(* RaspberryPI.py (subscriber callback, Arduino listener, FSM loop).       *)
(*                                                                         *)
(* Python None and the empty string are both written None (0); timestamps  *)
(* are positive ticks of a logical clock.                                  *)
(***************************************************************************)
EXTENDS Integers, Sequences, FiniteSets, TLC

\* ---------------------------------------------------------------- bounds
MaxTasks == 1       \* tasks created in an end-to-end run
MaxDispatch == 2    \* tasks created in a run of the fleet, of the queueing robot or of the orchestrator alone
MaxTime == 2        \* last tick of the logical clock (CURRENT_TIMESTAMP)
MaxQueue == 4       \* messages in flight from the robots to the orchestrator
MaxLogs == 12       \* log rows written in a run of the whole system
MaxInject == 2      \* log rows written in a run of the orchestrator alone
MaxNotify == 2      \* notification lines one Arduino sends in a run
MaxMoves == 1       \* tasks the robot variant executes in a run

\* ------------------------------------------------------ program constants
ROBOT_ID == 1
None == 0

Agents == {1, 2}                  \* processes running RaspberryPI.py
ContainerIds == {1001}            \* container_id values posted to create_task
QrCodes == {1001, 1002}           \* codes the camera can decode
Actions == {"PICK", "DROP"}       \* tasks.action CHECK constraint

FSMState == {"IDLE", "FOLLOW_LINE", "AT_TARGET", "SCAN_QR", "ALIGN",
             "PICK_SIM", "DELIVER", "DROP_SIM", "ERROR"}

ArduinoLines == {"WIDE_BLACK", "ALIGN_OK", "ALIGN_TIMEOUT"}

VARIABLES
    \* orchestrator (Backend.py, database.py)
    tasks,          \* tasks table: sequence of rows, task_id = index
    robots,         \* robots table: robot_id -> row
    logs,           \* logs table: sequence of rows
    requests,       \* per request thread of /tasks/create: its position, the row id it inserted, the row it returned
    handler,        \* the call of handle_robot_event in progress: its message and the next statement, or empty
    response,       \* the rows the last GET /tasks returned
    now,            \* CURRENT_TIMESTAMP
    connected,      \* the orchestrator's MQTT client has a connection to the broker
    \* message bus
    bus,            \* status and event messages on their way to the orchestrator
    inbox,          \* per agent: assignment messages on their way to it
    \* robot agent (RaspberryPI.py), one copy per process
    fsm_state, current_task, robot_state,
    wide_black_detected, align_done,
    arduino_open,   \* connect_arduino succeeded
    last_cmd,       \* last command written to the Arduino
    net_alive,      \* the paho network thread started by loop_start is running
    cb_raised,      \* on_message has raised an exception
    main,           \* position of RaspberryPI.main: wait (lines 548-552), flagged (stop_flag set), stopped (final S sent), exited
    pc,             \* position of fsm_loop: top, scan (inside scan_qr_success), dwell (inside a sleep), clear (before line 497), dead (thread ended), off (not started)
    notes,          \* notification lines the Arduino has sent
    \* history
    visited,        \* FSM states of the agent's current cycle, in order
    acceptors,      \* task_id -> agents that accepted it
    drops,          \* task_id -> DROP_COMPLETED events published for it
    scan_failed,    \* task ids whose scan failed at some agent
    last_scan,      \* per agent: outcome of its last scan
    wide_fresh,     \* per agent: a WIDE_BLACK line has arrived since fsm_state last changed
    write_failed,   \* per agent: a write to the Arduino has raised
    unregistered,   \* robot ids of consumed status messages that matched no robots row
    \* orchestrator variant (FlaskBackend.py)
    flask_tasks,    \* its tasks table: sequence of rows, task_id = index
    flask_robots,   \* its robots table: robot_id -> row
    flask_logs,     \* its logs table
    flask_sent,     \* the task rows it has published on warehouse/tasks
    \* robot variant (serial-Test.py)
    sim_state,      \* its robot_state
    sim_thread      \* per thread (status_publisher, battery_simulator, the MQTT callback): the next statement and the value it has read (the callback: the number of messages it has read)

vars == <<tasks, robots, logs, requests, handler, response, now, connected, bus, inbox,
          fsm_state, current_task, robot_state,
          wide_black_detected, align_done, arduino_open, last_cmd, net_alive, cb_raised,
          main, pc, notes, visited, acceptors, drops, scan_failed, last_scan, wide_fresh,
          write_failed, unregistered, flask_tasks, flask_robots, flask_logs, flask_sent,
          sim_state, sim_thread>>

flaskVars == <<flask_tasks, flask_robots, flask_logs, flask_sent>>
simVars == <<sim_state, sim_thread>>
variantVars == <<flaskVars, simVars>>
webVars == <<requests, handler, response, variantVars>>
dbVars == <<tasks, robots, logs, webVars>>
agentVars == <<fsm_state, current_task, robot_state, wide_black_detected, align_done,
               arduino_open, last_cmd, net_alive, cb_raised, main, pc, notes>>
agentHist == <<visited, acceptors, drops, scan_failed, last_scan, wide_fresh, write_failed>>
histVars == <<agentHist, unregistered>>

TaskIds == 1..MaxDispatch

\* Werkzeug's threaded server: the threads that can run create_task at once
RequestThreads == {1, 2}

\* A request thread outside create_task
IdleRequest == [pc |-> "idle", inserted |-> None, returned |-> None]

\* ------------------------------------------------------------ orchestrator

\* database.py: a row of the robots table with its column defaults
DefaultRobotRow ==
    [status |-> "idle", fsm_state |-> "IDLE", battery |-> 100, last_seen |-> 1]

\* database.py: a freshly inserted row of the tasks table
NewTaskRow(id, container, action, t) ==
    [task_id |-> id, container_id |-> container, action |-> action,
     status |-> "pending", current_step |-> "WAITING", assigned_robot |-> None,
     created_at |-> t, completed_at |-> None]

\* The payload published on warehouse/tasks/assign: dict(task)
AssignMsg(row) == row

StatusMsg(rid, status, fsm, battery) ==
    [topic |-> "status", robot_id |-> rid, task_id |-> None, event |-> "",
     details |-> None, status |-> status, fsm_state |-> fsm, battery |-> battery]

EventMsg(rid, tid, event, details) ==
    [topic |-> "events", robot_id |-> rid, task_id |-> tid, event |-> event,
     details |-> details, status |-> "", fsm_state |-> "", battery |-> 0]

\* An UPDATE of the robots table without its WHERE clause
StatusUpdate_AllRows(rows, data, t) ==
    [rid \in DOMAIN rows |->
        [status |-> data.status, fsm_state |-> data.fsm_state,
         battery |-> data.battery, last_seen |-> t]]

\* handle_robot_status: UPDATE robots ... WHERE robot_id=?
StatusUpdate(rows, data, t) ==
    [rid \in DOMAIN rows |->
        IF rid = data.robot_id
        THEN [status |-> data.status, fsm_state |-> data.fsm_state,
              battery |-> data.battery, last_seen |-> t]
        ELSE rows[rid]]

\* An INSERT OR REPLACE that always writes the row with log_id 1
LogInsert_Replace(rows, data, t) ==
    <<[robot_id |-> data.robot_id, task_id |-> data.task_id,
       event |-> data.event, details |-> data.details]>>

\* handle_robot_event, first statement: INSERT INTO logs (the timestamp column,
\* which no code reads, is left out)
LogInsert(rows, data, t) ==
    Append(rows, [robot_id |-> data.robot_id, task_id |-> data.task_id,
                  event |-> data.event, details |-> data.details])

\* An UPDATE of current_step without its WHERE clause
StepUpdate_AllRows(rows, data) ==
    IF data.task_id # None
    THEN [i \in DOMAIN rows |-> [rows[i] EXCEPT !.current_step = data.event]]
    ELSE rows

\* handle_robot_event, second statement: UPDATE tasks SET current_step
StepUpdate(rows, data) ==
    IF data.task_id # None
    THEN [i \in DOMAIN rows |->
            IF rows[i].task_id = data.task_id
            THEN [rows[i] EXCEPT !.current_step = data.event]
            ELSE rows[i]]
    ELSE rows

\* A status update that also marks the task in progress on every other event
CompleteUpdate_Reopen(rows, data, t) ==
    [i \in DOMAIN rows |->
        IF rows[i].task_id = data.task_id
        THEN IF data.event = "DROP_COMPLETED"
             THEN [rows[i] EXCEPT !.status = "completed", !.completed_at = t]
             ELSE [rows[i] EXCEPT !.status = "in_progress"]
        ELSE rows[i]]

\* A completion that compares the tag without regard to case
CompleteUpdate_AnyCase(rows, data, t) ==
    IF data.event \in {"DROP_COMPLETED", "drop_completed"}
    THEN [i \in DOMAIN rows |->
            IF rows[i].task_id = data.task_id
            THEN [rows[i] EXCEPT !.status = "completed", !.completed_at = t]
            ELSE rows[i]]
    ELSE rows

\* handle_robot_event, third statement: UPDATE tasks SET status='completed'
CompleteUpdate(rows, data, t) ==
    IF data.event = "DROP_COMPLETED"
    THEN [i \in DOMAIN rows |->
            IF rows[i].task_id = data.task_id
            THEN [rows[i] EXCEPT !.status = "completed", !.completed_at = t]
            ELSE rows[i]]
    ELSE rows

handle_robot_status(data) ==
    /\ robots' = StatusUpdate(robots, data, now)
    /\ unregistered' = IF data.robot_id \in DOMAIN robots THEN unregistered
                       ELSE unregistered \cup {data.robot_id}
    /\ UNCHANGED <<tasks, logs, webVars>>

handle_robot_event(data) ==
    /\ logs' = LogInsert(logs, data, now)
    /\ tasks' = CompleteUpdate(StepUpdate(tasks, data), data, now)
    /\ UNCHANGED <<robots, webVars, unregistered>>

\* handle_robot_event as the subscriber thread runs it, one query_db call at
\* a time, each on its own connection and committed on its own.  First the
\* INSERT of lines 116-124.
handle_robot_event_insert(data) ==
    /\ handler = <<>>
    /\ logs' = LogInsert(logs, data, now)
    /\ handler' = <<[data |-> data, next |-> "step"]>>
    /\ UNCHANGED <<tasks, robots, requests, response, variantVars, unregistered>>

\* Then the UPDATE of current_step (lines 127-135), then the UPDATE of status
\* (lines 138-143)
handle_robot_event_update ==
    /\ handler # <<>>
    /\ LET data == handler[1].data
       IN IF handler[1].next = "step"
          THEN /\ tasks' = StepUpdate(tasks, data)
               /\ handler' = <<[data |-> data, next |-> "complete"]>>
          ELSE /\ tasks' = CompleteUpdate(tasks, data, now)
               /\ handler' = <<>>
    /\ UNCHANGED <<robots, logs, requests, response, variantVars, unregistered>>

\* get_tasks: SELECT * FROM tasks, the rows a client of GET /tasks is
\* answered with (their order set aside)
get_tasks ==
    /\ response' = {tasks[i] : i \in DOMAIN tasks}
    /\ UNCHANGED <<tasks, robots, logs, requests, handler, variantVars, unregistered>>

\* Backend.on_message: dispatch on the topic
Backend_on_message(data) ==
    IF data.topic = "status" THEN handle_robot_status(data)
    ELSE handle_robot_event(data)

\* create_task: insert the row, read it back, publish it on the assign topic.
\* Every subscribed agent whose network thread runs gets its own copy; a
\* QoS 0 publish without a connection is dropped by the client.
create_task(container, action) ==
    /\ LET row == NewTaskRow(Len(tasks) + 1, container, action, now)
       IN /\ tasks' = Append(tasks, row)
          /\ inbox' = [a \in Agents |->
                         IF connected /\ net_alive[a] THEN Append(inbox[a], AssignMsg(row))
                         ELSE inbox[a]]
    /\ UNCHANGED <<robots, logs, webVars, now, connected, bus, agentVars, histVars>>

\* create_task in request thread r, lines 189-199: the INSERT, committed by
\* query_db on a connection of its own
create_task_insert(r, container, action) ==
    /\ requests[r].pc = "idle"
    /\ tasks' = Append(tasks, NewTaskRow(Len(tasks) + 1, container, action, now))
    /\ requests' = [requests EXCEPT ![r] =
                       [pc |-> "inserted", inserted |-> Len(tasks) + 1, returned |-> None]]
    /\ UNCHANGED <<robots, logs, handler, response, variantVars, now, connected, bus, inbox,
                   agentVars, histVars>>

\* create_task in request thread r, lines 201-211: a second query reads the
\* row with the greatest task_id, and that row is published and returned
create_task_publish(r) ==
    /\ requests[r].pc = "inserted"
    /\ LET task == tasks[Len(tasks)]
       IN /\ inbox' = [a \in Agents |->
                         IF connected /\ net_alive[a] THEN Append(inbox[a], AssignMsg(task))
                         ELSE inbox[a]]
          /\ requests' = [requests EXCEPT ![r].pc = "idle", ![r].returned = task.task_id]
    /\ UNCHANGED <<tasks, robots, logs, handler, response, variantVars, now, connected, bus,
                   agentVars, histVars>>

\* SQL NULL in a TEXT column (JSON null in the "action" field)
SqlNull == "NULL"

\* The CHECK constraint of tasks.action, with SQL's three truth values: the
\* value of `action IN ('PICK','DROP')`
CheckAction(action) ==
    IF action = SqlNull THEN SqlNull
    ELSE IF action \in Actions THEN "TRUE" ELSE "FALSE"

\* SQLite refuses the INSERT only when the CHECK expression is false
InsertAllowed(action) == CheckAction(action) # "FALSE"

\* The route /tasks/create on a posted JSON object.  data["container_id"] and
\* data["action"] raise KeyError when the key is absent, and the INSERT raises
\* IntegrityError when the CHECK constraint fails; either way Flask answers
\* with an error and nothing has been written or published.
create_task_request(body) ==
    IF body.has_container /\ body.has_action /\ InsertAllowed(body.action)
    THEN create_task(body.container_id, body.action)
    ELSE UNCHANGED vars

\* The clock of CURRENT_TIMESTAMP advances
Tick ==
    /\ now < MaxTime
    /\ now' = now + 1
    /\ UNCHANGED <<dbVars, connected, bus, inbox, agentVars, histVars>>

\* The orchestrator's subscriber thread takes the next message off the bus;
\* without a connection the broker has no subscriber to hand it to
BackendDeliver ==
    /\ bus # <<>>
    /\ Head(bus).topic = "events" => Len(logs) < MaxLogs
    /\ IF connected THEN Backend_on_message(Head(bus))
       ELSE UNCHANGED <<dbVars, unregistered>>
    /\ bus' = Tail(bus)
    /\ UNCHANGED <<now, connected, inbox, agentVars, agentHist>>

\* The orchestrator's connection to the broker is lost
Disconnect ==
    /\ connected
    /\ connected' = FALSE
    /\ UNCHANGED <<dbVars, now, bus, inbox, agentVars, histVars>>

\* loop_forever connects again and on_connect subscribes to the two topics
Reconnect ==
    /\ ~connected
    /\ connected' = TRUE
    /\ UNCHANGED <<dbVars, now, bus, inbox, agentVars, histVars>>

\* ------------------------------------------------------------- robot agent

\* robot_state as the module sets it up (lines 63-68)
InitRobotState ==
    [status |-> "idle", fsm_state |-> "IDLE", battery |-> 100, task_id |-> None]

\* A client that hands the newest message to the broker first
Sent_NewestFirst(a, msgs) == IF net_alive[a] THEN msgs \o bus ELSE bus

\* mqtt_client.publish from agent a: the messages reach the bus only while the
\* client's network thread runs
Sent(a, msgs) == IF net_alive[a] THEN bus \o msgs ELSE bus

\* Room on the bus for n more messages of agent a
Room(a, n) == net_alive[a] => Len(bus) + n <= MaxQueue

\* A status message built from robot_state alone, before fsm_loop has copied
\* the FSM state into it
publish_status_Stale(a) ==
    StatusMsg(ROBOT_ID, robot_state[a].status, robot_state[a].fsm_state,
              robot_state[a].battery)

\* publish_status: the message built from robot_state and the global fsm_state
publish_status(a) ==
    StatusMsg(ROBOT_ID, robot_state[a].status, fsm_state[a], robot_state[a].battery)

\* publish_event: the message carries robot_state["task_id"] as it is now
publish_event(a, event, details) ==
    EventMsg(ROBOT_ID, robot_state[a].task_id, event, details)

\* stop_flag, set by main at line 554 and never cleared
stop_flag(a) == main[a] \in {"flagged", "stopped", "exited"}

\* A send_cmd without the test of line 85: arduino.write on None raises
send_cmd_NoGuard(open, fails) ==
    IF open /\ ~fails THEN "written" ELSE "raise"

\* send_cmd: nothing happens unless the serial port is open; if it is, the
\* command is written, and an exception of arduino.write (fails) leaves
\* send_cmd, which has no handler
send_cmd(open, fails) ==
    IF open THEN (IF fails THEN "raise" ELSE "written") ELSE "noop"

\* The last command the Arduino has got once cmds have been sent without an
\* exception
AfterCmds(a, cmds) ==
    IF cmds # <<>> /\ send_cmd(arduino_open[a], FALSE) = "written"
    THEN cmds[Len(cmds)] ELSE last_cmd[a]

\* Sending cmds raises although no write fails
CmdsRaise(a, cmds) == cmds # <<>> /\ send_cmd(arduino_open[a], FALSE) = "raise"

\* DROP_COMPLETED events among msgs, counted per task id
CountDrops(msgs, t) ==
    Cardinality({i \in DOMAIN msgs : msgs[i].event = "DROP_COMPLETED" /\ msgs[i].task_id = t})

\* on_message, line 149: the agent is busy and the message is ignored
IgnoreTask(a) ==
    /\ inbox' = [inbox EXCEPT ![a] = Tail(@)]
    /\ UNCHANGED <<agentVars, histVars>>

\* on_message, lines 150-154: the agent takes the task, and then the call
\* publish_status("TASK_RECEIVED") raises TypeError (publish_status takes no
\* argument).  The exception leaves the callback; whether the network thread
\* outlives it is the MQTT library's choice.
TakeTask(a, data) ==
    \E survives \in BOOLEAN :
        /\ current_task' = [current_task EXCEPT ![a] = <<data>>]
        /\ robot_state' = [robot_state EXCEPT ![a].task_id = data.task_id,
                                              ![a].status = "busy"]
        /\ fsm_state' = [fsm_state EXCEPT ![a] = "FOLLOW_LINE"]
        /\ cb_raised' = [cb_raised EXCEPT ![a] = TRUE]
        /\ net_alive' = [net_alive EXCEPT ![a] = survives]
        /\ inbox' = [inbox EXCEPT ![a] = IF survives THEN Tail(@) ELSE <<>>]
        /\ visited' = [visited EXCEPT ![a] = <<fsm_state[a], "FOLLOW_LINE">>]
        /\ acceptors' = [acceptors EXCEPT ![data.task_id] = @ \cup {a}]
        /\ wide_fresh' = [wide_fresh EXCEPT ![a] = FALSE]
        /\ UNCHANGED <<wide_black_detected, align_done, arduino_open, last_cmd, main,
                       pc, notes, drops, scan_failed, last_scan, write_failed, unregistered>>

\* The task_id of a JSON object that has no such key
KeyAbsent == 0 - 1

\* An assignment message without the key task_id
MalformedMsg(container) ==
    [NewTaskRow(KeyAbsent, container, "PICK", 1) EXCEPT !.task_id = KeyAbsent]

\* on_message, lines 150-151, for a message without task_id: current_task is
\* assigned, then data['task_id'] raises KeyError and the exception leaves the
\* callback
TakeMalformed(a, data) ==
    \E survives \in BOOLEAN :
        /\ current_task' = [current_task EXCEPT ![a] = <<data>>]
        /\ cb_raised' = [cb_raised EXCEPT ![a] = TRUE]
        /\ net_alive' = [net_alive EXCEPT ![a] = survives]
        /\ inbox' = [inbox EXCEPT ![a] = IF survives THEN Tail(@) ELSE <<>>]
        /\ UNCHANGED <<fsm_state, robot_state, wide_black_detected, align_done, arduino_open,
                       last_cmd, main, pc, notes, histVars>>

\* A subscriber callback that takes every task it is sent
on_message_NoBusyCheck(a) ==
    /\ net_alive[a]
    /\ inbox[a] # <<>>
    /\ TakeTask(a, Head(inbox[a]))
    /\ UNCHANGED <<dbVars, connected, now, bus>>

\* on_message: the subscriber callback, run by the network thread on the next
\* assignment message
on_message(a) ==
    /\ net_alive[a]
    /\ inbox[a] # <<>>
    /\ IF fsm_state[a] # "IDLE" THEN IgnoreTask(a)
       ELSE IF Head(inbox[a]).task_id = KeyAbsent THEN TakeMalformed(a, Head(inbox[a]))
       ELSE TakeTask(a, Head(inbox[a]))
    /\ UNCHANGED <<dbVars, connected, now, bus>>

\* arduino_listener: one line read from the serial port
arduino_listener(a, line) ==
    /\ arduino_open[a]
    /\ ~stop_flag(a)
    /\ Room(a, 1)
    /\ notes' = [notes EXCEPT ![a] = @ + 1]
    /\ wide_black_detected' =
          [wide_black_detected EXCEPT ![a] = IF line = "WIDE_BLACK" THEN TRUE ELSE @]
    /\ align_done' = [align_done EXCEPT ![a] = IF line = "ALIGN_OK" THEN TRUE ELSE @]
    /\ bus' = Sent(a, <<publish_event(a, "ARDUINO_" \o line, None)>>)
    /\ wide_fresh' = [wide_fresh EXCEPT ![a] = IF line = "WIDE_BLACK" THEN TRUE ELSE @]
    /\ UNCHANGED <<dbVars, connected, now, inbox, fsm_state, current_task, robot_state,
                   arduino_open, last_cmd, net_alive, cb_raised, main, pc, visited,
                   acceptors, drops, scan_failed, last_scan, write_failed, unregistered>>

\* An AT_TARGET branch that goes on to ALIGN without a scan
AtTarget_SkipScan(a) ==
    [msgs |-> <<publish_event(a, "TARGET_REACHED", None)>>, cmds |-> <<"S">>,
     next |-> "ALIGN", wide |-> wide_black_detected[a], pc |-> "top"]

\* fsm_loop, AT_TARGET branch
AtTarget(a) ==
    [msgs |-> <<publish_event(a, "TARGET_REACHED", None)>>, cmds |-> <<"S">>,
     next |-> "SCAN_QR", wide |-> wide_black_detected[a], pc |-> "top"]

\* An ALIGN branch that waits in ALIGN until the Arduino has reported ALIGN_OK
Align_AwaitOk(a) ==
    [msgs |-> <<publish_event(a, "ALIGNED", None)>>, cmds |-> <<"ALIGN">>,
     next |-> IF align_done[a] THEN "PICK_SIM" ELSE "ALIGN",
     wide |-> wide_black_detected[a], pc |-> "top"]

\* fsm_loop, ALIGN branch (lines 466-469): the command, the event and the
\* assignment of PICK_SIM; align_done is not read
Align(a) ==
    [msgs |-> <<publish_event(a, "ALIGNED", None)>>, cmds |-> <<"ALIGN">>,
     next |-> "PICK_SIM", wide |-> wide_black_detected[a], pc |-> "top"]

\* One pass of the while loop of fsm_loop from its top to the next sleep or
\* blocking call: what it publishes after the status, the commands it sends,
\* the FSM state it leaves and where the loop stands afterwards.
IterOut(a) ==
    LET st == fsm_state[a]
        wide == wide_black_detected[a]
        ev(e, d) == publish_event(a, e, d)
    IN CASE st = "IDLE" ->
              [msgs |-> <<>>, cmds |-> <<"S">>, next |-> st, wide |-> wide, pc |-> "top"]
         [] st = "FOLLOW_LINE" ->
              [msgs |-> <<ev("FOLLOWING_LINE", None)>>, cmds |-> <<"LF">>,
               next |-> IF wide THEN "AT_TARGET" ELSE st, wide |-> FALSE, pc |-> "top"]
         [] st = "AT_TARGET" -> AtTarget(a)
         [] st = "SCAN_QR" ->
              IF current_task[a] = <<>>
              THEN [msgs |-> <<ev("QR_ERROR", None), ev("QR_FAILED", None)>>, cmds |-> <<>>,
                    next |-> "ERROR", wide |-> wide, pc |-> "top"]
              ELSE [msgs |-> <<ev("QR_SCAN_START", current_task[a][1].container_id)>>,
                    cmds |-> <<>>, next |-> st, wide |-> wide, pc |-> "scan"]
         [] st = "ALIGN" -> Align(a)
         [] st = "PICK_SIM" ->
              [msgs |-> <<>>, cmds |-> <<"LED_RED_ON", "BUZZER_ON">>,
               next |-> st, wide |-> wide, pc |-> "dwell"]
         [] st = "DELIVER" ->
              [msgs |-> <<ev("DELIVERING", None)>>, cmds |-> <<"LF">>,
               next |-> IF wide THEN "DROP_SIM" ELSE st, wide |-> FALSE, pc |-> "top"]
         [] st = "DROP_SIM" ->
              [msgs |-> <<>>, cmds |-> <<"LED_GREEN_ON", "BUZZER_ON">>,
               next |-> st, wide |-> wide, pc |-> "dwell"]
         [] st = "ERROR" ->
              [msgs |-> <<ev("ERROR", None)>>, cmds |-> <<"S">>,
               next |-> st, wide |-> wide, pc |-> "dwell"]

\* fsm_loop, from the top of the while loop: copy the state into robot_state,
\* publish the status, run the branch of the current state
fsm_loop(a) ==
    /\ pc[a] = "top"
    /\ ~stop_flag(a)
    /\ LET out == IterOut(a)
           msgs == <<publish_status(a)>> \o out.msgs
       IN /\ ~CmdsRaise(a, out.cmds)
          /\ Room(a, Len(msgs))
          /\ bus' = Sent(a, msgs)
          /\ robot_state' = [robot_state EXCEPT ![a].fsm_state = fsm_state[a]]
          /\ fsm_state' = [fsm_state EXCEPT ![a] = out.next]
          /\ wide_black_detected' = [wide_black_detected EXCEPT ![a] = out.wide]
          /\ last_cmd' = [last_cmd EXCEPT ![a] = AfterCmds(a, out.cmds)]
          /\ pc' = [pc EXCEPT ![a] = out.pc]
          /\ visited' = [visited EXCEPT ![a] =
                            IF out.next # fsm_state[a] THEN Append(@, out.next) ELSE @]
          /\ scan_failed' = IF out.next = "ERROR" /\ robot_state[a].task_id # None
                            THEN scan_failed \cup {robot_state[a].task_id} ELSE scan_failed
          /\ last_scan' = [last_scan EXCEPT ![a] = IF out.next = "ERROR" THEN "fail" ELSE @]
          /\ wide_fresh' = [wide_fresh EXCEPT ![a] =
                               IF out.next # fsm_state[a] THEN FALSE ELSE @]
    /\ UNCHANGED <<dbVars, connected, now, inbox, current_task, align_done, arduino_open,
                   net_alive, cb_raised, main, notes, acceptors, drops, write_failed,
                   unregistered>>

\* scan_qr_success after QR_SCAN_START: what the camera loop publishes and
\* returns.  err: the camera raises.  code: the QR text decoded in the frame
\* (None: no code before the timeout), written as the number it spells, so
\* that it equals str(container_id) exactly when it equals container_id.
\* q: the user presses Q in that frame.
ScanResult(a, expected, err, code, q) ==
    LET ev(e, d) == publish_event(a, e, d)
        seen == IF code = None THEN <<>>
                ELSE <<ev("QR_DETECTED", code),
                       IF code = expected THEN ev("QR_MATCH", code)
                       ELSE ev("QR_MISMATCH", code)>>
        match_found == code # None /\ code = expected
    IN IF err THEN [ok |-> FALSE, msgs |-> <<ev("QR_ERROR", None)>>]
       ELSE IF q THEN [ok |-> FALSE, msgs |-> seen \o <<ev("QR_CANCELLED", None)>>]
       ELSE IF match_found THEN [ok |-> TRUE, msgs |-> seen]
       ELSE [ok |-> FALSE, msgs |-> seen \o <<ev("QR_TIMEOUT", None)>>]

\* fsm_loop, SCAN_QR branch: the state the result of scan_qr_success leads to
AfterScan(ok) == IF ok THEN "ALIGN" ELSE "ERROR"

\* fsm_loop, SCAN_QR branch, when scan_qr_success returns
fsm_scan(a, err, code, q) ==
    /\ pc[a] = "scan"
    /\ LET res == ScanResult(a, current_task[a][1].container_id, err, code, q)
           msgs == res.msgs \o <<publish_event(a, IF res.ok THEN "QR_CONFIRMED"
                                                  ELSE "QR_FAILED", None)>>
           next == AfterScan(res.ok)
       IN /\ Room(a, Len(msgs))
          /\ bus' = Sent(a, msgs)
          /\ fsm_state' = [fsm_state EXCEPT ![a] = next]
          /\ visited' = [visited EXCEPT ![a] = Append(@, next)]
          /\ last_scan' = [last_scan EXCEPT ![a] = IF res.ok THEN "ok" ELSE "fail"]
          /\ scan_failed' = IF ~res.ok /\ robot_state[a].task_id # None
                            THEN scan_failed \cup {robot_state[a].task_id} ELSE scan_failed
    /\ pc' = [pc EXCEPT ![a] = "top"]
    /\ wide_fresh' = [wide_fresh EXCEPT ![a] = FALSE]
    /\ UNCHANGED <<dbVars, connected, now, inbox, current_task, robot_state, wide_black_detected,
                   align_done, arduino_open, last_cmd, net_alive, cb_raised, main, notes,
                   acceptors, drops, write_failed, unregistered>>

\* scan_qr_success, lines 248-254: Picamera2(), cam.configure or cam.start
\* raises.  These calls stand before the try statement, so the exception
\* leaves scan_qr_success and fsm_loop, which has no handler: the FSM thread
\* ends with fsm_state still SCAN_QR.
scan_open_fails(a) ==
    /\ pc[a] = "scan"
    /\ pc' = [pc EXCEPT ![a] = "dead"]
    /\ last_scan' = [last_scan EXCEPT ![a] = "fail"]
    /\ scan_failed' = IF robot_state[a].task_id # None
                      THEN scan_failed \cup {robot_state[a].task_id} ELSE scan_failed
    /\ UNCHANGED <<dbVars, connected, now, bus, inbox, fsm_state, current_task, robot_state,
                   wide_black_detected, align_done, arduino_open, last_cmd, net_alive,
                   cb_raised, main, notes, visited, acceptors, drops, wide_fresh,
                   write_failed, unregistered>>

\* The rest of a PICK_SIM, DROP_SIM or ERROR branch, after its time.sleep
DwellOut(a) ==
    LET st == fsm_state[a]
        ev(e, d) == publish_event(a, e, d)
    IN CASE st = "PICK_SIM" ->
              [msgs |-> <<ev("PICK_COMPLETED", None)>>, cmds |-> <<"BUZZER_OFF">>,
               next |-> "DELIVER", rs |-> robot_state[a]]
         [] st = "DROP_SIM" ->
              [msgs |-> <<ev("DROP_COMPLETED", None)>>,
               cmds |-> <<"BUZZER_OFF", "LED_GREEN_OFF">>, next |-> "IDLE",
               rs |-> [robot_state[a] EXCEPT !.status = "idle", !.task_id = None]]
         [] OTHER ->
              [msgs |-> <<>>, cmds |-> <<>>, next |-> "IDLE", rs |-> robot_state[a]]

fsm_dwell(a) ==
    /\ pc[a] = "dwell"
    /\ LET out == DwellOut(a)
       IN /\ ~CmdsRaise(a, out.cmds)
          /\ Room(a, Len(out.msgs))
          /\ bus' = Sent(a, out.msgs)
          /\ robot_state' = [robot_state EXCEPT ![a] = out.rs]
          /\ fsm_state' = [fsm_state EXCEPT ![a] = out.next]
          /\ last_cmd' = [last_cmd EXCEPT ![a] = AfterCmds(a, out.cmds)]
          /\ visited' = [visited EXCEPT ![a] = Append(@, out.next)]
          /\ drops' = [t \in TaskIds |-> drops[t] + CountDrops(out.msgs, t)]
    /\ pc' = [pc EXCEPT ![a] = "top"]
    /\ wide_fresh' = [wide_fresh EXCEPT ![a] = FALSE]
    /\ UNCHANGED <<dbVars, connected, now, inbox, current_task, wide_black_detected, align_done,
                   arduino_open, net_alive, cb_raised, main, notes, acceptors, scan_failed,
                   last_scan, write_failed, unregistered>>

\* fsm_loop, DROP_SIM branch after its sleep, lines 490-496: the commands,
\* DROP_COMPLETED, and robot_state cleared; fsm_state is still DROP_SIM
fsm_drop_clear(a) ==
    /\ pc[a] = "dwell"
    /\ fsm_state[a] = "DROP_SIM"
    /\ LET out == DwellOut(a)
       IN /\ ~CmdsRaise(a, out.cmds)
          /\ Room(a, Len(out.msgs))
          /\ bus' = Sent(a, out.msgs)
          /\ robot_state' = [robot_state EXCEPT ![a] = out.rs]
          /\ last_cmd' = [last_cmd EXCEPT ![a] = AfterCmds(a, out.cmds)]
          /\ drops' = [t \in TaskIds |-> drops[t] + CountDrops(out.msgs, t)]
    /\ pc' = [pc EXCEPT ![a] = "clear"]
    /\ UNCHANGED <<dbVars, connected, now, inbox, fsm_state, current_task, wide_black_detected,
                   align_done, arduino_open, net_alive, cb_raised, main, notes, visited,
                   acceptors, scan_failed, last_scan, wide_fresh, write_failed, unregistered>>

\* fsm_loop, DROP_SIM branch, line 497: fsm_state = IDLE
fsm_drop_idle(a) ==
    /\ pc[a] = "clear"
    /\ fsm_state' = [fsm_state EXCEPT ![a] = DwellOut(a).next]
    /\ visited' = [visited EXCEPT ![a] = Append(@, DwellOut(a).next)]
    /\ pc' = [pc EXCEPT ![a] = "top"]
    /\ wide_fresh' = [wide_fresh EXCEPT ![a] = FALSE]
    /\ UNCHANGED <<dbVars, connected, now, bus, inbox, current_task, robot_state,
                   wide_black_detected, align_done, arduino_open, last_cmd, net_alive,
                   cb_raised, main, notes, acceptors, drops, scan_failed, last_scan,
                   write_failed, unregistered>>

\* fsm_loop and the rest of a branch after its sleep, when a write to the
\* Arduino raises at command k of the step.  Every branch sends its commands
\* before it publishes an event or assigns fsm_state, and neither send_cmd nor
\* fsm_loop has a handler: the status of line 441 is out, the commands before
\* k are written, and the FSM thread ends.
fsm_write_fails(a, fails) ==
    /\ pc[a] \in {"top", "dwell"}
    /\ pc[a] = "top" => ~stop_flag(a)
    /\ LET cmds == IF pc[a] = "top" THEN IterOut(a).cmds ELSE DwellOut(a).cmds
           msgs == IF pc[a] = "top" THEN <<publish_status(a)>> ELSE <<>>
       IN /\ cmds # <<>>
          /\ send_cmd(arduino_open[a], fails) = "raise"
          /\ Room(a, Len(msgs))
          /\ bus' = Sent(a, msgs)
          /\ \E k \in DOMAIN cmds :
                last_cmd' = [last_cmd EXCEPT ![a] =
                               IF k > 1 /\ arduino_open[a] THEN cmds[k - 1] ELSE @]
    /\ robot_state' = [robot_state EXCEPT ![a].fsm_state =
                          IF pc[a] = "top" THEN fsm_state[a] ELSE @]
    /\ pc' = [pc EXCEPT ![a] = "dead"]
    /\ write_failed' = [write_failed EXCEPT ![a] = TRUE]
    /\ UNCHANGED <<dbVars, connected, now, inbox, fsm_state, current_task,
                   wide_black_detected, align_done, arduino_open, net_alive, cb_raised,
                   main, notes, visited, acceptors, drops, scan_failed, last_scan,
                   wide_fresh, unregistered>>

\* fsm_loop, line 439: the loop condition fails and the thread returns
fsm_loop_exit(a) ==
    /\ pc[a] = "top"
    /\ stop_flag(a)
    /\ pc' = [pc EXCEPT ![a] = "dead"]
    /\ UNCHANGED <<dbVars, connected, now, bus, inbox, fsm_state, current_task, robot_state,
                   wide_black_detected, align_done, arduino_open, last_cmd, net_alive,
                   cb_raised, main, notes, histVars>>

\* main, lines 551-554: KeyboardInterrupt ends the wait and stop_flag is set
main_interrupt(a) ==
    /\ main[a] = "wait"
    /\ main' = [main EXCEPT ![a] = "flagged"]
    /\ UNCHANGED <<dbVars, connected, now, bus, inbox, fsm_state, current_task, robot_state,
                   wide_black_detected, align_done, arduino_open, last_cmd, net_alive,
                   cb_raised, pc, notes, histVars>>

\* main, lines 555-557: loop_stop, disconnect, send_cmd("S"); no thread is
\* joined
main_stop(a) ==
    /\ main[a] = "flagged"
    /\ ~CmdsRaise(a, <<"S">>)
    /\ main' = [main EXCEPT ![a] = "stopped"]
    /\ net_alive' = [net_alive EXCEPT ![a] = FALSE]
    /\ last_cmd' = [last_cmd EXCEPT ![a] = AfterCmds(a, <<"S">>)]
    /\ UNCHANGED <<dbVars, connected, now, bus, inbox, fsm_state, current_task, robot_state,
                   wide_black_detected, align_done, arduino_open, cb_raised, pc, notes,
                   histVars>>

\* main, lines 558-559 and the return: the process ends and its daemon
\* threads with it
main_exit(a) ==
    /\ main[a] = "stopped"
    /\ main' = [main EXCEPT ![a] = "exited"]
    /\ pc' = [pc EXCEPT ![a] = "off"]
    /\ UNCHANGED <<dbVars, connected, now, bus, inbox, fsm_state, current_task, robot_state,
                   wide_black_detected, align_done, arduino_open, last_cmd, net_alive,
                   cb_raised, notes, histVars>>

\* The orchestrator's subscriber thread handles a message some publisher put
\* on one of its topics
BackendInject(data) ==
    /\ Len(logs) < MaxInject
    /\ Backend_on_message(data)
    /\ UNCHANGED <<now, connected, bus, inbox, agentVars, agentHist>>

\* ----------------------------------- orchestrator variant (FlaskBackend.py)

\* init_db: a row of the robots table (name and last_updated, which no code
\* reads, are left out)
FlaskRobotRow(status, battery, x, y) ==
    [status |-> status, battery |-> battery, x_pos |-> x, y_pos |-> y]

\* init_db: a freshly inserted row of the tasks table
FlaskTaskRow(id, container, action, priority, t) ==
    [task_id |-> id, container_id |-> container, action |-> action, priority |-> priority,
     status |-> "pending", assigned_robot |-> None, created_at |-> t, completed_at |-> None]

\* update_task, lines 358-367: the UPDATE of the rows WHERE task_id=?, with
\* completed_at set to the current time when the new status is completed
FlaskTaskUpdate(rows, task_id, status, t) ==
    [i \in DOMAIN rows |->
        IF rows[i].task_id # task_id THEN rows[i]
        ELSE IF status = "completed"
             THEN [rows[i] EXCEPT !.status = status, !.completed_at = t]
             ELSE [rows[i] EXCEPT !.status = status]]

\* create_task (lines 322-348): insert the row, read the newest row back,
\* publish it on warehouse/tasks
flask_create_task(container, action, priority) ==
    /\ flask_tasks' = Append(flask_tasks,
                             FlaskTaskRow(Len(flask_tasks) + 1, container, action, priority, now))
    /\ flask_sent' = Append(flask_sent, flask_tasks'[Len(flask_tasks')])
    /\ UNCHANGED <<flask_robots, flask_logs>>

\* update_task (lines 351-371): PUT /tasks/<task_id>/update with the status of
\* the body, any text or None when the key is absent
flask_update_task(task_id, status) ==
    /\ flask_tasks' = FlaskTaskUpdate(flask_tasks, task_id, status, now)
    /\ UNCHANGED <<flask_robots, flask_logs, flask_sent>>

\* A message on warehouse/robot/status as on_message reads it with data.get
FlaskStatusMsg(rid, status, task_id, event) ==
    [robot_id |-> rid, status |-> status, battery |-> 100, x_pos |-> 0, y_pos |-> 0,
     task_id |-> task_id, event |-> event]

\* on_message, status topic (lines 182-220): the robot's row is updated or
\* inserted; a status completed with a task id completes that task and sets
\* completed_at to the current time; a QR_CONFIRMED event adds a log row
flask_on_message(data) ==
    /\ flask_robots' =
          [rid \in DOMAIN flask_robots \cup {data.robot_id} |->
              IF rid = data.robot_id
              THEN FlaskRobotRow(data.status, data.battery, data.x_pos, data.y_pos)
              ELSE flask_robots[rid]]
    /\ flask_tasks' =
          IF data.task_id # None /\ data.status = "completed"
          THEN FlaskTaskUpdate(flask_tasks, data.task_id, "completed", now)
          ELSE flask_tasks
    /\ flask_logs' =
          IF data.event = "QR_CONFIRMED"
          THEN Append(flask_logs, [robot_id |-> data.robot_id, task_id |-> data.task_id,
                                   message |-> "QR Code confirmed"])
          ELSE flask_logs
    /\ UNCHANGED flask_sent

\* ------------------------------------------ robot variant (serial-Test.py)

\* robot_state as the module sets it up (lines 66-72)
InitSimState ==
    [status |-> "idle", battery |-> 100, x_pos |-> 0, y_pos |-> 0, current_task_id |-> None]

SimThreads == {"status_publisher", "battery_simulator", "on_message"}

\* Task actions a message on warehouse/tasks can name: the keys of
\* ACTION_MOVEMENT_MAP and one that is not a key
SimActions == {"Pick", "Place", "Scan", "Move", "Charge"}

Min(x, y) == IF x <= y THEN x ELSE y
Max(x, y) == IF x >= y THEN x ELSE y

\* A position update that does not stop at the edge of the grid
update_position_for_action_NoClamp(action, rs) ==
    CASE action = "Pick" -> [rs EXCEPT !.x_pos = @ + 1]
      [] action = "Place" -> [rs EXCEPT !.x_pos = @ - 1]
      [] action = "Scan" -> [rs EXCEPT !.y_pos = @ + 1]
      [] action = "Move" -> [rs EXCEPT !.y_pos = @ - 1]
      [] OTHER -> rs

\* update_position_for_action (lines 305-314)
update_position_for_action(action, rs) ==
    CASE action = "Pick" -> [rs EXCEPT !.x_pos = Min(10, @ + 1)]
      [] action = "Place" -> [rs EXCEPT !.x_pos = Max(0, @ - 1)]
      [] action = "Scan" -> [rs EXCEPT !.y_pos = Min(10, @ + 1)]
      [] action = "Move" -> [rs EXCEPT !.y_pos = Max(0, @ - 1)]
      [] OTHER -> rs

\* Thread t goes on to statement stmt, holding the value it has read
Goto(t, stmt, read) == sim_thread' = [sim_thread EXCEPT ![t] = [pc |-> stmt, read |-> read]]

\* status_publisher, line 528: the test battery > 10 holds
status_publisher_test ==
    /\ sim_thread["status_publisher"].pc = "top"
    /\ sim_state.battery > 10
    /\ Goto("status_publisher", "load", None)
    /\ UNCHANGED sim_state

\* status_publisher, line 529: battery is read for the subtraction
status_publisher_load ==
    /\ sim_thread["status_publisher"].pc = "load"
    /\ Goto("status_publisher", "store", sim_state.battery)
    /\ UNCHANGED sim_state

\* status_publisher, lines 529-532: the difference with random.randint(0, 1) is
\* stored, the status is published and the thread sleeps
status_publisher_store(r) ==
    /\ sim_thread["status_publisher"].pc = "store"
    /\ sim_state' = [sim_state EXCEPT !.battery = sim_thread["status_publisher"].read - r]
    /\ Goto("status_publisher", "top", None)

\* battery_simulator, line 542: the robot is idle and the battery below 100
battery_simulator_test ==
    /\ sim_thread["battery_simulator"].pc = "top"
    /\ sim_state.status = "idle" /\ sim_state.battery < 100
    /\ Goto("battery_simulator", "load", None)
    /\ UNCHANGED sim_state

\* battery_simulator, line 543: battery is read for the sum
battery_simulator_load ==
    /\ sim_thread["battery_simulator"].pc = "load"
    /\ Goto("battery_simulator", "store", sim_state.battery)
    /\ UNCHANGED sim_state

\* battery_simulator, lines 543-544: min(100, battery + 1) is stored and the
\* thread sleeps
battery_simulator_store ==
    /\ sim_thread["battery_simulator"].pc = "store"
    /\ sim_state' = [sim_state EXCEPT !.battery = Min(100, sim_thread["battery_simulator"].read + 1)]
    /\ Goto("battery_simulator", "top", None)

\* serial-Test.py on_message, lines 260-275: a task arrives
sim_on_message(task_id) ==
    /\ sim_thread["on_message"].pc = "top"
    /\ sim_state' = [sim_state EXCEPT !.current_task_id = task_id, !.status = "busy"]
    /\ Goto("on_message", "moving", sim_thread["on_message"].read + 1)

\* on_message, lines 279-294: execute_movement returns; on success the
\* position is updated, otherwise the status becomes error and the callback
\* returns
sim_moved(action, success) ==
    /\ sim_thread["on_message"].pc = "moving"
    /\ sim_state' = IF success THEN update_position_for_action(action, sim_state)
                    ELSE [sim_state EXCEPT !.status = "error"]
    /\ Goto("on_message", IF success THEN "moved" ELSE "top", sim_thread["on_message"].read)

\* publish_task_completed, lines 409-426, after the sleep of line 286
sim_completed ==
    /\ sim_thread["on_message"].pc = "moved"
    /\ sim_state' = [sim_state EXCEPT !.status = "completed"]
    /\ Goto("on_message", "completed", sim_thread["on_message"].read)

\* publish_task_completed, lines 429-432, after its sleep
sim_idle ==
    /\ sim_thread["on_message"].pc = "completed"
    /\ sim_state' = [sim_state EXCEPT !.status = "idle", !.current_task_id = None]
    /\ Goto("on_message", "top", sim_thread["on_message"].read)

\* ----------------------------------------------------------- specification

\* The state after init_db and the start of Backend.py, with the processes
\* of `started` running RaspberryPI.main and the robot variant in state sim
InitAt(started, sim) ==
    /\ tasks = <<>>
    /\ robots = [rid \in {ROBOT_ID} |-> DefaultRobotRow]
    /\ logs = <<>>
    /\ requests = [r \in RequestThreads |-> IdleRequest]
    /\ handler = <<>>
    /\ response = {}
    /\ now = 1
    /\ connected = TRUE
    /\ bus = <<>>
    /\ inbox = [a \in Agents |-> <<>>]
    /\ fsm_state = [a \in Agents |-> "IDLE"]
    /\ current_task = [a \in Agents |-> <<>>]
    /\ robot_state = [a \in Agents |-> InitRobotState]
    /\ wide_black_detected = [a \in Agents |-> FALSE]
    /\ align_done = [a \in Agents |-> FALSE]
    /\ arduino_open \in [Agents -> BOOLEAN]
    /\ \A a \in Agents \ started : ~arduino_open[a]
    /\ last_cmd = [a \in Agents |-> ""]
    /\ net_alive = [a \in Agents |-> a \in started]
    /\ cb_raised = [a \in Agents |-> FALSE]
    /\ main = [a \in Agents |-> IF a \in started THEN "wait" ELSE "off"]
    /\ pc = [a \in Agents |-> IF a \in started THEN "top" ELSE "off"]
    /\ notes = [a \in Agents |-> 0]
    /\ visited = [a \in Agents |-> <<"IDLE">>]
    /\ acceptors = [t \in TaskIds |-> {}]
    /\ drops = [t \in TaskIds |-> 0]
    /\ scan_failed = {}
    /\ last_scan = [a \in Agents |-> "none"]
    /\ wide_fresh = [a \in Agents |-> FALSE]
    /\ write_failed = [a \in Agents |-> FALSE]
    /\ unregistered = {}
    /\ flask_tasks = <<>>
    /\ flask_robots = [rid \in {ROBOT_ID} |-> FlaskRobotRow("idle", 100, 0, 0)]
    /\ flask_logs = <<>>
    /\ flask_sent = <<>>
    /\ sim_state = sim
    /\ sim_thread = [t \in SimThreads |-> [pc |-> "top", read |-> 0]]

InitWith(started) == InitAt(started, InitSimState)

CreateTask == Len(tasks) < MaxTasks /\ \E c \in ContainerIds : create_task(c, "PICK")
CreateMore == Len(tasks) < MaxDispatch /\ \E c \in ContainerIds : create_task(c, "PICK")
OnMessage == \E a \in Agents : on_message(a)
ArduinoListener ==
    \E a \in Agents, line \in ArduinoLines : notes[a] < MaxNotify /\ arduino_listener(a, line)
FsmLoop == \E a \in Agents : fsm_loop(a)
FsmScan == \E a \in Agents, err \in BOOLEAN, code \in QrCodes \cup {None}, q \in BOOLEAN :
              fsm_scan(a, err, code, q)
FsmScanOpenFails == \E a \in Agents : scan_open_fails(a)
FsmDwell == \E a \in Agents : fsm_dwell(a)
FsmWriteFails == \E a \in Agents, fails \in BOOLEAN : fsm_write_fails(a, fails)
FsmLoopExit == \E a \in Agents : fsm_loop_exit(a)
Interrupt == \E a \in Agents : main_interrupt(a)
MainStop == \E a \in Agents : main_stop(a)
MainExit == \E a \in Agents : main_exit(a)

\* Messages a publisher can put on the orchestrator's topics
InjectMsgs ==
    {EventMsg(ROBOT_ID, t, e, None) :
        t \in {None} \cup 1..MaxDispatch, e \in {"DROP_COMPLETED", "ERROR"}}
    \cup {StatusMsg(r, s.st, s.fsm, 100) :
        r \in {ROBOT_ID}, s \in {[st |-> "idle", fsm |-> "IDLE"], [st |-> "busy", fsm |-> "DELIVER"]}}

CreateAnyTask ==
    Len(tasks) < MaxDispatch /\ \E c \in ContainerIds, act \in Actions : create_task(c, act)
Inject == \E data \in InjectMsgs : BackendInject(data)

\* Event tags a publisher can send: the terminal tag, tags of the robot agent
\* and a free text no code publishes
EventTags == {"DROP_COMPLETED", "ERROR", "QR_FAILED", "drop_completed"}

InjectEvents ==
    {EventMsg(ROBOT_ID, t, e, None) : t \in {None} \cup 1..MaxDispatch, e \in EventTags}

InjectEvent == \E data \in InjectEvents : BackendInject(data)

\* robot_id values of status messages: the seeded robot and one with no row
RobotIds == {ROBOT_ID, ROBOT_ID + 1}

StatusMsgs ==
    {StatusMsg(r, s.st, s.fsm, 100) :
        r \in RobotIds, s \in {[st |-> "idle", fsm |-> "IDLE"], [st |-> "busy", fsm |-> "DELIVER"]}}

InjectStatus == \E data \in StatusMsgs : BackendInject(data)

\* battery values a status message can carry: the ends of the range and the
\* integers next to them
BatteryValues == {0 - 1, 0, 100, 101}

BatteryMsgs ==
    {StatusMsg(ROBOT_ID, s.st, s.fsm, b) :
        s \in {[st |-> "idle", fsm |-> "IDLE"], [st |-> "busy", fsm |-> "DELIVER"]},
        b \in BatteryValues}

InjectBattery == \E data \in BatteryMsgs : BackendInject(data)

CreateInsert ==
    /\ Len(tasks) < MaxDispatch
    /\ \E r \in RequestThreads, c \in ContainerIds, act \in Actions :
          create_task_insert(r, c, act)
CreatePublish == \E r \in RequestThreads : create_task_publish(r)

EventBegin ==
    /\ Len(logs) < MaxInject
    /\ \E data \in {m \in InjectMsgs : m.topic = "events"} : handle_robot_event_insert(data)
    /\ UNCHANGED <<now, connected, bus, inbox, agentVars, agentHist>>
EventStep ==
    /\ handle_robot_event_update
    /\ UNCHANGED <<now, connected, bus, inbox, agentVars, agentHist>>
GetTasks ==
    /\ get_tasks
    /\ UNCHANGED <<now, connected, bus, inbox, agentVars, agentHist>>

\* JSON objects posted to /tasks/create: each required key present or absent,
\* container_id a number or null, action a recognised kind, another text or null
Requests ==
    [has_container : BOOLEAN, container_id : ContainerIds \cup {None},
     has_action : BOOLEAN, action : Actions \cup {"MOVE", SqlNull}]

PostTask == Len(tasks) < MaxDispatch /\ \E body \in Requests : create_task_request(body)

\* End to end: one robot and the orchestrator, every published message
\* delivered
WideBlack == \E a \in Agents : notes[a] < MaxNotify /\ arduino_listener(a, "WIDE_BLACK")

Init == InitWith({1})

Next ==
    \/ CreateTask
    \/ BackendDeliver
    \/ OnMessage
    \/ WideBlack
    \/ FsmLoop
    \/ FsmScan
    \/ FsmScanOpenFails
    \/ FsmDwell

Spec == Init /\ [][Next]_vars

\* One robot and the orchestrator, tasks created while the robot is at work
NextQueue ==
    \/ CreateMore
    \/ BackendDeliver
    \/ OnMessage
    \/ WideBlack
    \/ FsmLoop
    \/ FsmScan
    \/ FsmScanOpenFails
    \/ FsmDwell

SpecQueue == Init /\ [][NextQueue]_vars

\* The threads of the robot and of the orchestrator keep running
FairQueue ==
    /\ SpecQueue
    /\ WF_vars(BackendDeliver)
    /\ WF_vars(OnMessage)
    /\ WF_vars(FsmLoop)
    /\ WF_vars(FsmScan \/ FsmScanOpenFails)
    /\ WF_vars(FsmDwell)

\* The fleet on its way to the targets: every agent running, no wide marker
\* reached yet
InitFleet == InitWith(Agents)

NextFleet ==
    \/ CreateMore
    \/ BackendDeliver
    \/ OnMessage
    \/ FsmLoop

SpecFleet == InitFleet /\ [][NextFleet]_vars

\* The orchestrator alone, under any sequence of requests and messages
InitBackend == InitWith({})

NextBackend ==
    \/ CreateAnyTask
    \/ Tick
    \/ Inject

SpecBackend == InitBackend /\ [][NextBackend]_vars

\* The orchestrator alone, consuming events of every tag
NextEvents ==
    \/ CreateAnyTask
    \/ Tick
    \/ InjectEvent

SpecEvents == InitBackend /\ [][NextEvents]_vars

\* The orchestrator alone, consuming status messages of known and unknown
\* robots between the events
NextStatus ==
    \/ CreateAnyTask
    \/ Tick
    \/ Inject
    \/ InjectStatus

SpecStatus == InitBackend /\ [][NextStatus]_vars

\* Task creation from any posted object, with one robot subscribed
NextCreate ==
    \/ PostTask
    \/ Tick
    \/ OnMessage

SpecCreate == Init /\ [][NextCreate]_vars

\* One robot on its way to the target while the orchestrator's connection
\* comes and goes
NextBus ==
    \/ CreateTask
    \/ Disconnect
    \/ Reconnect
    \/ BackendDeliver
    \/ OnMessage
    \/ FsmLoop

SpecBus == Init /\ [][NextBus]_vars

\* The threads keep running, and loop_forever keeps trying to connect
FairBus ==
    /\ SpecBus
    /\ WF_vars(Reconnect)
    /\ WF_vars(BackendDeliver)
    /\ WF_vars(OnMessage)
    /\ WF_vars(FsmLoop)

\* One robot at work and the orchestrator, with Ctrl-C pressed at any moment
NextShutdown ==
    \/ CreateTask
    \/ BackendDeliver
    \/ OnMessage
    \/ WideBlack
    \/ FsmLoop
    \/ FsmScan
    \/ FsmScanOpenFails
    \/ FsmDwell
    \/ FsmLoopExit
    \/ Interrupt
    \/ MainStop
    \/ MainExit

SpecShutdown == Init /\ [][NextShutdown]_vars

\* One robot, with or without its Arduino, whose serial writes can fail
NextHardware ==
    \/ CreateTask
    \/ BackendDeliver
    \/ OnMessage
    \/ WideBlack
    \/ FsmLoop
    \/ FsmScan
    \/ FsmScanOpenFails
    \/ FsmDwell
    \/ FsmWriteFails

SpecHardware == Init /\ [][NextHardware]_vars

\* The orchestrator alone, consuming status messages with any battery value
NextBattery ==
    \/ CreateAnyTask
    \/ Tick
    \/ InjectBattery

SpecBattery == InitBackend /\ [][NextBattery]_vars

\* Two request threads in create_task at once, with one robot subscribed
\* whose callback has not run yet
NextConcurrent ==
    \/ CreateInsert
    \/ CreatePublish
    \/ Tick

SpecConcurrent == Init /\ [][NextConcurrent]_vars

\* The orchestrator alone: its subscriber thread inside handle_robot_event
\* while request threads create and read tasks
NextReader ==
    \/ CreateAnyTask
    \/ EventBegin
    \/ EventStep
    \/ GetTasks

SpecReader == InitBackend /\ [][NextReader]_vars

\* One robot, with or without its Arduino, up to the first wide marker: all a
\* robot without Arduino can do, since only the Arduino reports markers
NextLink ==
    \/ CreateTask
    \/ BackendDeliver
    \/ OnMessage
    \/ FsmLoop
    \/ FsmWriteFails

SpecLink == Init /\ [][NextLink]_vars

\* The robot alone with its Arduino, which sends any of its notification lines
\* at any moment and whose writes can fail; nothing takes the robot's messages
\* off the bus
InitAlign == Init /\ arduino_open[1]

NextAlign ==
    \/ CreateTask
    \/ OnMessage
    \/ ArduinoListener
    \/ FsmLoop
    \/ FsmScan
    \/ FsmDwell
    \/ FsmWriteFails

SpecAlign == InitAlign /\ [][NextAlign]_vars

\* Some publisher puts an object without task_id on warehouse/tasks/assign
publish_malformed(container) ==
    /\ \E a \in Agents : net_alive[a] /\ Len(inbox[a]) < MaxDispatch
    /\ inbox' = [a \in Agents |->
                   IF net_alive[a] /\ Len(inbox[a]) < MaxDispatch
                   THEN Append(inbox[a], MalformedMsg(container)) ELSE inbox[a]]
    /\ UNCHANGED <<dbVars, connected, now, bus, agentVars, histVars>>

PublishMalformed == \E c \in ContainerIds : publish_malformed(c)

\* One robot and the orchestrator, with a second publisher on the assign topic
NextMalformed ==
    \/ CreateTask
    \/ PublishMalformed
    \/ BackendDeliver
    \/ OnMessage
    \/ FsmLoop

SpecMalformed == Init /\ [][NextMalformed]_vars

\* What every request and message of the orchestrator variant leaves alone
FlaskFrame ==
    UNCHANGED <<tasks, robots, logs, requests, handler, response, simVars, connected, now,
                bus, inbox, agentVars, histVars>>

\* priority values posted to create_task
Priorities == {1, 2}

\* status values a PUT body can carry: those of the life of a task and none
FlaskStatuses == {"pending", "in_progress", "completed", SqlNull}

FlaskCreate ==
    /\ Len(flask_tasks) < MaxDispatch
    /\ \E c \in ContainerIds, p \in Priorities : flask_create_task(c, "Pick", p)
    /\ FlaskFrame

FlaskUpdate ==
    /\ \E t \in 1..MaxDispatch, st \in FlaskStatuses : flask_update_task(t, st)
    /\ FlaskFrame

\* Status messages of the seeded robot and of one without a row, with and
\* without a task id, and the QR_CONFIRMED event of serial-Test.py
FlaskStatusMsgs ==
    {FlaskStatusMsg(r, st, t, "") :
        r \in RobotIds, st \in {"busy", "completed"}, t \in {None} \cup 1..MaxDispatch}
    \cup {FlaskStatusMsg(ROBOT_ID, "busy", None, "QR_CONFIRMED")}

FlaskStatus ==
    /\ \E data \in FlaskStatusMsgs :
          /\ data.event = "QR_CONFIRMED" => Len(flask_logs) < MaxInject
          /\ flask_on_message(data)
    /\ FlaskFrame

\* The orchestrator variant alone, under any sequence of requests and status
\* messages
NextFlask ==
    \/ FlaskCreate
    \/ FlaskUpdate
    \/ FlaskStatus
    \/ Tick

SpecFlask == InitBackend /\ [][NextFlask]_vars

\* What the threads of the robot variant leave alone
SimFrame ==
    UNCHANGED <<tasks, robots, logs, requests, handler, response, flaskVars, connected, now,
                bus, inbox, agentVars, histVars>>

StatusPublisher ==
    /\ \/ status_publisher_test
       \/ status_publisher_load
       \/ \E r \in 0..1 : status_publisher_store(r)
    /\ SimFrame

BatterySimulator ==
    /\ \/ battery_simulator_test
       \/ battery_simulator_load
       \/ battery_simulator_store
    /\ SimFrame

SimTask ==
    /\ \/ sim_thread["on_message"].read < MaxMoves /\ sim_on_message(1)
       \/ \E action \in SimActions, success \in BOOLEAN : sim_moved(action, success)
       \/ sim_completed
       \/ sim_idle
    /\ SimFrame

\* The robot variant: its status, battery and MQTT threads, under every
\* interleaving of their statements
NextSim ==
    \/ StatusPublisher
    \/ BatterySimulator
    \/ SimTask

\* The robot variant at its first position or at the opposite corner of its
\* grid, where earlier tasks have taken it
InitSim ==
    \E c \in {0, 10} : InitAt({}, [InitSimState EXCEPT !.x_pos = c, !.y_pos = c])

SpecSim == InitSim /\ [][NextSim]_vars

\* The rest of a branch after its sleep, with the listener free to run between
\* the statements that end the DROP_SIM branch
FsmDwellSteps ==
    \E a \in Agents :
        \/ fsm_state[a] # "DROP_SIM" /\ fsm_dwell(a)
        \/ fsm_drop_clear(a)
        \/ fsm_drop_idle(a)

\* A line of the Arduino read while the FSM thread stands between the last two
\* statements of the DROP_SIM branch
LineAtDrop ==
    \E a \in Agents, line \in ArduinoLines :
        pc[a] = "clear" /\ notes[a] <= MaxNotify /\ arduino_listener(a, line)

\* End to end, the listener thread interleaved with the statements of the
\* DROP_SIM branch
NextIdentity ==
    \/ CreateTask
    \/ BackendDeliver
    \/ OnMessage
    \/ WideBlack
    \/ LineAtDrop
    \/ FsmLoop
    \/ FsmScan
    \/ FsmDwellSteps

SpecIdentity == InitAlign /\ [][NextIdentity]_vars

TypeOK ==
    /\ Len(tasks) <= MaxDispatch
    /\ Len(bus) <= MaxQueue
    /\ \A a \in Agents : fsm_state[a] \in FSMState

\* ------------------------------------------------------------------ claims

\* The assignment message of task t is on its way to agent a
InFlight(a, t) == \E i \in DOMAIN inbox[a] : inbox[a][i].task_id = t

Created(t) == t \in DOMAIN tasks

\* C1: a task id is never the current task of two different robots at work;
\* of two idle robots sent one task, one becomes busy and the other stays idle.
C1_OneRobotPerTask ==
    \A a, b \in Agents :
        (a # b /\ fsm_state[a] # "IDLE" /\ fsm_state[b] # "IDLE")
            => robot_state[a].task_id # robot_state[b].task_id

\* The step is on_message of agent a: the head of its inbox is consumed
Delivered(a) == inbox[a] # <<>> /\ Len(inbox'[a]) < Len(inbox[a])

\* C2: an assignment delivered while fsm_state is not IDLE changes none of
\* fsm_state, current_task, robot_state (task_id, status); it is consumed and
\* kept nowhere, so only a new delivery can make the robot execute that task.
C2_BusyReject ==
    [][\A a \in Agents :
          (Delivered(a) /\ fsm_state[a] # "IDLE")
              => /\ inbox'[a] = Tail(inbox[a])
                 /\ fsm_state'[a] = fsm_state[a]
                 /\ current_task'[a] = current_task[a]
                 /\ robot_state'[a] = robot_state[a]
                 /\ pc'[a] = pc[a]
                 /\ acceptors' = acceptors]_vars

\* An agent whose network thread has run throughout is at work on one task,
\* and another task's message has been delivered to it and is gone
C2_Witness ==
    \E a \in Agents, t \in TaskIds :
        /\ Created(t) /\ net_alive[a] /\ fsm_state[a] # "IDLE"
        /\ robot_state[a].task_id # t
        /\ a \notin acceptors[t] /\ ~InFlight(a, t)

\* Position of a status on the walk pending, assigned, in_progress, completed
Rank(status) ==
    CASE status = "pending" -> 0
      [] status = "assigned" -> 1
      [] status = "in_progress" -> 2
      [] OTHER -> 3

\* C3: under every sequence of create_task, handle_robot_status and
\* handle_robot_event, duplicated and reordered messages included, no task's
\* status moves backward; a completed task stays completed.
C3_MonotonicStatus ==
    [][\A i \in DOMAIN tasks :
          /\ i \in DOMAIN tasks'
          /\ Rank(tasks'[i].status) >= Rank(tasks[i].status)]_vars

\* A completed task for which a later ERROR event has been consumed
C3_Witness ==
    \E i \in DOMAIN tasks :
        tasks[i].status = "completed" /\ tasks[i].current_step = "ERROR"

\* The step is handle_robot_event on an event with this tag naming task i
Consumed(i, tags) ==
    /\ Len(logs') = Len(logs) + 1
    /\ logs'[Len(logs')].task_id = i
    /\ logs'[Len(logs')].event \in tags

\* C4: consuming the same DROP_COMPLETED event for a task a second time leaves
\* the task row as the first consumption left it: status completed,
\* completed_at unchanged.
C4_IdempotentTerminalEvent ==
    [][\A i \in DOMAIN tasks :
          (/\ Consumed(i, {"DROP_COMPLETED"})
           /\ tasks[i].status = "completed"
           /\ tasks[i].current_step = "DROP_COMPLETED")
              => tasks'[i] = tasks[i]]_vars

\* C5: an event message naming a task that is already completed changes none
\* of the task's status, current_step and completed_at.
C5_CompletedTaskIgnoresEvents ==
    [][\A i \in DOMAIN tasks :
          (Consumed(i, {"DROP_COMPLETED", "ERROR"}) /\ tasks[i].status = "completed")
              => /\ tasks'[i].status = tasks[i].status
                 /\ tasks'[i].current_step = tasks[i].current_step
                 /\ tasks'[i].completed_at = tasks[i].completed_at]_vars

\* C9: while an assignment message is on its way to a robot, the task's row
\* is assigned, names its robot, and that robot's row is busy.
C9_AssignmentBookkeeping ==
    \A a \in Agents : \A i \in DOMAIN inbox[a] :
        LET row == tasks[inbox[a][i].task_id]
        IN /\ row.status = "assigned"
           /\ row.assigned_robot \in DOMAIN robots
           /\ robots[row.assigned_robot].status = "busy"

SuccessPath ==
    <<"IDLE", "FOLLOW_LINE", "AT_TARGET", "SCAN_QR", "ALIGN", "PICK_SIM", "DELIVER",
      "DROP_SIM", "IDLE">>

ErrorPath == <<"IDLE", "FOLLOW_LINE", "AT_TARGET", "SCAN_QR", "ERROR", "IDLE">>

\* The edges of the table of FSM states
TableEdges ==
    {<<SuccessPath[i], SuccessPath[i + 1]>> : i \in 1..(Len(SuccessPath) - 1)}
    \cup {<<ErrorPath[i], ErrorPath[i + 1]>> : i \in 1..(Len(ErrorPath) - 1)}

IsPrefix(s, t) == Len(s) <= Len(t) /\ SubSeq(t, 1, Len(s)) = s

\* C6: every change of fsm_state is an edge of the table; the states of a
\* cycle are visited in the table's order with none skipped, and the one
\* branch, at SCAN_QR, is decided by the outcome of the scan.
C6_FsmConformance ==
    [][\A a \in Agents :
          fsm_state'[a] # fsm_state[a]
              => /\ <<fsm_state[a], fsm_state'[a]>> \in TableEdges
                 /\ IsPrefix(visited'[a], SuccessPath) \/ IsPrefix(visited'[a], ErrorPath)
                 /\ fsm_state[a] = "SCAN_QR"
                       => ((fsm_state'[a] = "ALIGN") <=> (last_scan'[a] = "ok"))]_vars

\* An agent has run a whole cycle, from the assignment to the drop and back
C6_Witness == \E a \in Agents : visited[a] = SuccessPath

\* C7: with one robot taking the task, a wide marker in FOLLOW_LINE, a match
\* at the scan and a wide marker in DELIVER, the robot visits the nine states
\* in order, publishes exactly one DROP_COMPLETED carrying the task id, and
\* once the messages in flight are delivered the task is completed.
C7_EndToEndSuccess ==
    /\ \A a \in Agents :
          (visited[a][Len(visited[a])] = "IDLE" /\ last_scan[a] = "ok")
              => visited[a] = SuccessPath
    /\ \A t \in TaskIds : \A a \in Agents :
          (acceptors[t] = {a} /\ drops[t] >= 1)
              => /\ drops[t] = 1
                 /\ bus = <<>> => (Created(t) /\ tasks[t].status = "completed")

\* A DROP_COMPLETED event carrying task t is on the bus or in the log
DropSeen(t) ==
    \/ \E i \in DOMAIN bus : bus[i].event = "DROP_COMPLETED" /\ bus[i].task_id = t
    \/ \E i \in DOMAIN logs : logs[i].event = "DROP_COMPLETED" /\ logs[i].task_id = t

\* C8: once the scan of an accepted task has failed (timeout, cancel or scan
\* error), the FSM has gone from SCAN_QR to ERROR, from where it goes on to
\* IDLE; the task is not dispatched again, no DROP_COMPLETED carrying its id
\* is published and the orchestrator never marks it completed.
C8_PerceptionFailure ==
    /\ \A t \in scan_failed :
          /\ drops[t] = 0
          /\ ~DropSeen(t)
          /\ tasks[t].status # "completed"
          /\ \A a \in Agents : ~InFlight(a, t)
    /\ \A a \in Agents :
          (last_scan[a] = "fail" /\ robot_state[a].task_id \in scan_failed)
              => visited[a] \in {ErrorPath, SubSeq(ErrorPath, 1, 5)}

\* A robot that can take a task: idle, with its subscriber running
IdleRobot == \E a \in Agents : fsm_state[a] = "IDLE" /\ net_alive[a]

\* C10: a task whose assignment every robot dropped is dispatched again, so
\* no task stays unaccepted for ever while a robot is idle.
C10_DispatchLiveness ==
    \A t \in TaskIds :
        (Created(t) /\ acceptors[t] = {}) ~> (acceptors[t] # {} \/ ~IdleRobot)

\* C11: in every state of a robot agent, fsm_state = IDLE implies that the
\* robot holds no task (robot_state.task_id is null) and that its status is
\* idle; task_id is non-null exactly when the status is not idle.
C11_RobotStateInvariant ==
    \A a \in Agents :
        /\ fsm_state[a] = "IDLE"
              => (robot_state[a].task_id = None /\ robot_state[a].status = "idle")
        /\ (robot_state[a].task_id # None) <=> (robot_state[a].status # "idle")

\* The step appends log rows
Logged == Len(logs') # Len(logs)

\* C12: each event handled by handle_robot_event appends exactly one log
\* entry; if it carries a task id, that task's current_step becomes the event
\* tag; if the tag is DROP_COMPLETED, that task becomes completed with
\* completed_at set; no other task row, and no other column, is changed.
C12_ConsumeEvent ==
    [][Logged =>
          LET e == logs'[Len(logs')]
          IN /\ logs' = Append(logs, e)
             /\ DOMAIN tasks' = DOMAIN tasks
             /\ robots' = robots
             /\ \A i \in DOMAIN tasks :
                   IF e.task_id = i
                   THEN /\ tasks'[i].current_step = e.event
                        /\ IF e.event = "DROP_COMPLETED"
                           THEN /\ tasks'[i].status = "completed"
                                /\ tasks'[i].completed_at = now
                                /\ now # None
                           ELSE /\ tasks'[i].status = tasks[i].status
                                /\ tasks'[i].completed_at = tasks[i].completed_at
                        /\ [tasks'[i] EXCEPT !.current_step = "", !.status = "",
                                             !.completed_at = None]
                             = [tasks[i] EXCEPT !.current_step = "", !.status = "",
                                                !.completed_at = None]
                   ELSE tasks'[i] = tasks[i]]_vars

\* A DROP_COMPLETED for task 1 was consumed last, at a later tick than the
\* creation, and task 2 has its row as created
C12_Witness ==
    /\ Len(tasks) = 2 /\ logs # <<>>
    /\ logs[Len(logs)].event = "DROP_COMPLETED" /\ logs[Len(logs)].task_id = 1
    /\ tasks[1].status = "completed" /\ tasks[1].completed_at > tasks[1].created_at
    /\ tasks[2].status = "pending" /\ tasks[2].current_step = "WAITING"

\* C13: for every event tag other than DROP_COMPLETED (ERROR, QR_FAILED and
\* free text included) handle_robot_event leaves the status and completed_at
\* of every task unchanged.
C13_OnlyDropCompletes ==
    [][(Logged /\ logs'[Len(logs')].event # "DROP_COMPLETED")
          => \A i \in DOMAIN tasks :
                /\ tasks'[i].status = tasks[i].status
                /\ tasks'[i].completed_at = tasks[i].completed_at]_vars

\* The free-text tag was consumed last for a task, which is still pending
C13_Witness ==
    \E i \in DOMAIN tasks :
        /\ logs # <<>> /\ logs[Len(logs)].event = "drop_completed"
        /\ logs[Len(logs)].task_id = i
        /\ tasks[i].current_step = "drop_completed"
        /\ tasks[i].status = "pending" /\ tasks[i].completed_at = None

\* The step consumes a status message: a robots row or the record of
\* unmatched senders changes
StatusConsumed == robots' # robots \/ unregistered' # unregistered

\* C14: a status message handled by handle_robot_status changes only the
\* robots row whose robot_id matches (status, fsm_state, battery, last_seen)
\* and no task row, so a robot reporting idle never completes its task.
C14_ConsumeStatus ==
    [][StatusConsumed
          => /\ tasks' = tasks
             /\ logs' = logs
             /\ DOMAIN robots' = DOMAIN robots
             /\ unregistered' # unregistered => robots' = robots
             /\ \A rid \in DOMAIN robots :
                   robots'[rid] # robots[rid] => robots'[rid].last_seen = now]_vars

\* The robot reports idle at a later tick while a task is still pending, and
\* a status message of an unknown robot has been consumed too
C14_Witness ==
    /\ robots[ROBOT_ID].status = "idle" /\ robots[ROBOT_ID].last_seen > 1
    /\ unregistered # {}
    /\ \E i \in DOMAIN tasks : tasks[i].status = "pending"

\* C15: a status message whose robot_id has no row in the robots table makes
\* handle_robot_status create a row for that id; after it the row exists.
C15_AutoRegister == \A rid \in unregistered : rid \in DOMAIN robots

\* C16: create_task with a missing required field or with an action that is
\* not PICK or DROP inserts no task row and publishes no assignment message;
\* so every task row, and every assignment in flight, has a container_id and
\* a recognised action, and every row starts pending.
C16_InvalidCreationRejected ==
    /\ \A i \in DOMAIN tasks :
          tasks[i].action \in Actions /\ tasks[i].container_id # None
    /\ \A a \in Agents : \A i \in DOMAIN inbox[a] :
          inbox[a][i].action \in Actions /\ inbox[a][i].container_id # None

\* C17: while the orchestrator's connection to the broker is down, create_task
\* still stores the task as pending and nothing is dispatched; after the
\* connection is re-established the pending task is dispatched to a robot.
C17_BusDisconnect ==
    /\ [][~connected => inbox' = inbox \/ \E a \in Agents : Len(inbox'[a]) < Len(inbox[a])]_vars
    /\ \A t \in TaskIds :
          (Created(t) /\ connected) ~> (acceptors[t] # {} \/ InFlight(ROBOT_ID, t) \/ ~connected)

\* The step ends the scan of agent a
ScanEnds(a) == pc[a] = "scan" /\ pc'[a] # "scan"

\* An event with this tag is published in the step
Published(tag) ==
    \E i \in (Len(bus) + 1)..Len(bus') : bus'[i].topic = "events" /\ bus'[i].event = tag

\* C18: the FSM leaves SCAN_QR to ALIGN exactly when the scan reports a code
\* equal to the task's container id, and to ERROR on every other outcome: a
\* mismatching code, a timeout, a user cancel or a scan error.
C18_ScanOutcome ==
    [][\A a \in Agents :
          ScanEnds(a)
              => /\ fsm_state'[a] \in {"ALIGN", "ERROR"}
                 /\ net_alive[a]
                       => ((fsm_state'[a] = "ALIGN")
                             <=> (/\ Published("QR_MATCH")
                                  /\ ~Published("QR_CANCELLED")
                                  /\ ~Published("QR_ERROR")))]_vars

\* The step is an iteration of fsm_loop of agent a, from the top of the loop,
\* by an agent whose publishes reach the bus: no other thread's step leaves
\* the tables, the clock, the inbox and the notification count alone without
\* shortening the bus
LoopStep(a) ==
    /\ pc[a] = "top" /\ net_alive[a]
    /\ ~stop_flag(a) /\ main' = main
    /\ dbVars' = dbVars /\ now' = now /\ connected' = connected
    /\ inbox' = inbox /\ notes' = notes
    /\ Len(bus') >= Len(bus)

StatusPublished ==
    Next /\ \E i \in (Len(bus) + 1)..Len(bus') : bus'[i].topic = "status"

\* The FSM thread of agent a is suspended: inside the QR scan, or inside the
\* sleep of PICK_SIM, DROP_SIM or ERROR
Suspended(a) == pc[a] \in {"scan", "dwell"}

\* C20: while the FSM is suspended in the QR scan or in the waits of
\* PICK_SIM, DROP_SIM and ERROR, a status heartbeat can still be published
\* and a hardware notification can still be consumed by the listener.
C20_SuspensionIndependence ==
    \A a \in Agents :
        Suspended(a)
            => /\ (net_alive[a] /\ Room(a, 1)) => ENABLED StatusPublished
               /\ (arduino_open[a] /\ notes[a] < MaxNotify /\ Room(a, 1))
                     => ENABLED arduino_listener(a, "WIDE_BLACK")

\* The events of the robots in the order of their publication: those the
\* orchestrator has logged, then those still on the bus
EventHistory ==
    LET onBus == SelectSeq(bus, LAMBDA m : m.topic = "events")
    IN [i \in DOMAIN logs |-> [task_id |-> logs[i].task_id, event |-> logs[i].event]]
       \o [i \in DOMAIN onBus |-> [task_id |-> onBus[i].task_id, event |-> onBus[i].event]]

\* Position of an event of fsm_loop in the order of the FSM's transitions; 0
\* for the events of the scan and of the listener
EventRank(event) ==
    CASE event = "FOLLOWING_LINE" -> 1
      [] event = "TARGET_REACHED" -> 2
      [] event \in {"QR_CONFIRMED", "QR_FAILED"} -> 3
      [] event = "ALIGNED" -> 4
      [] event = "PICK_COMPLETED" -> 5
      [] event = "DELIVERING" -> 6
      [] event = "DROP_COMPLETED" -> 7
      [] OTHER -> 0

\* Some event published before position k of the bus, logged by now or still
\* on the bus, carries task id t and has a rank above r
LaterPublishedBefore(k, t, r) ==
    \/ \E i \in DOMAIN logs : logs[i].task_id = t /\ EventRank(logs[i].event) > r
    \/ \E i \in 1..(k - 1) : bus'[i].task_id = t /\ EventRank(bus'[i].event) > r

\* C21: the events of one task cycle are published in the order of the FSM's
\* transitions: no event of a later state comes before an event of an earlier
\* state of the same cycle, however the listener and the subscriber interleave.
C21_EventOrder ==
    [][\A k \in (Len(bus) + 1)..Len(bus') :
          EventRank(bus'[k].event) > 0
              => ~LaterPublishedBefore(k, bus'[k].task_id, EventRank(bus'[k].event))]_vars

\* The events of a whole cycle have been published, with a listener event
\* among them
C21_Witness ==
    LET h == EventHistory
    IN \E i, j, k \in DOMAIN h :
          /\ i < k /\ k < j
          /\ h[i].event = "FOLLOWING_LINE"
          /\ h[k].event = "ARDUINO_WIDE_BLACK"
          /\ h[j].event = "DROP_COMPLETED"
          /\ h[i].task_id = h[j].task_id

\* C22: once main has set stop_flag and sent its final stop command, S is the
\* last command the hardware ever gets: no thread sends LF, ALIGN or an
\* actuator command after it.
C22_ShutdownStop ==
    \A a \in Agents :
        (main[a] \in {"stopped", "exited"} /\ arduino_open[a]) => last_cmd[a] = "S"

\* C23: with no Arduino connected, send_cmd does nothing and raises nothing:
\* no command reaches the hardware, the FSM thread does not end in a send, and
\* every iteration of fsm_loop leaves the state and the position that the
\* branch of its state gives with the hardware connected.
C23_HardwareAbsent ==
    [][\A a \in Agents :
          ~arduino_open[a]
              => /\ last_cmd'[a] = last_cmd[a]
                 /\ ~write_failed'[a]
                 /\ pc'[a] = "dead" => pc[a] \in {"dead", "scan"}
                 /\ LoopStep(a) => /\ fsm_state'[a] = IterOut(a).next
                                   /\ pc'[a] = IterOut(a).pc]_vars

\* A robot without Arduino has taken a task and follows the line: its
\* FOLLOWING_LINE event is logged and no command was ever written
C23_Witness ==
    \E a \in Agents :
        /\ ~arduino_open[a] /\ fsm_state[a] = "FOLLOW_LINE" /\ last_cmd[a] = ""
        /\ \E i \in DOMAIN logs : logs[i].event = "FOLLOWING_LINE"

\* C24: a write to the Arduino that raises on an open link does not stop the
\* robot agent: fsm_loop keeps iterating afterwards.
C24_SendFailureTolerated ==
    \A a \in Agents : write_failed[a] => pc[a] # "dead"

\* The step is the orchestrator consuming the event message at the head of
\* the bus
EventConsumed == bus # <<>> /\ bus' = Tail(bus) /\ Head(bus).topic = "events" /\ connected

\* C25: no operation of the orchestrator deletes or changes a log entry; the
\* log only grows, by exactly one entry for each event message consumed, and
\* task creation and status messages leave it alone.
C25_LogAppendOnly ==
    [][/\ IsPrefix(logs, logs')
       /\ IF EventConsumed
          THEN logs' = Append(logs, [robot_id |-> Head(bus).robot_id,
                                     task_id |-> Head(bus).task_id,
                                     event |-> Head(bus).event,
                                     details |-> Head(bus).details])
          ELSE logs' = logs]_vars

\* Several events are logged, the last of them DROP_COMPLETED, and a status
\* message was consumed after it
C25_Witness ==
    /\ Len(logs) > 2 /\ Len(tasks) > 0
    /\ logs[Len(logs)].event = "DROP_COMPLETED"
    /\ robots[ROBOT_ID].fsm_state = "IDLE" /\ robots[ROBOT_ID].status = "idle"
    /\ bus = <<>>

\* C26: whatever battery values the consumed status messages carry, the
\* battery of every robots row is within 0..100.
C26_BatteryRange == \A rid \in DOMAIN robots : robots[rid].battery \in 0..100

\* C27: FOLLOW_LINE -> AT_TARGET and DELIVER -> DROP_SIM happen only in
\* response to a wide-marker notification delivered while the FSM is in that
\* state; a WIDE_BLACK delivered in another state causes no later transition.
C27_WideMarkerConsumption ==
    [][\A a \in Agents :
          (\/ fsm_state[a] = "FOLLOW_LINE" /\ fsm_state'[a] = "AT_TARGET"
           \/ fsm_state[a] = "DELIVER" /\ fsm_state'[a] = "DROP_SIM")
              => wide_fresh[a]]_vars

\* Assignment messages carrying task t that were published to agent a
Publications(a, t) == Cardinality({i \in DOMAIN inbox[a] : inbox[a][i].task_id = t})

\* C28: when create_task requests run concurrently, each call returns and
\* publishes the task row it inserted itself; once the calls are over, every
\* inserted task has been published exactly once.
C28_ConcurrentCreation ==
    /\ \A r \in RequestThreads :
          requests[r].returned # None => requests[r].returned = requests[r].inserted
    /\ (\A r \in RequestThreads : requests[r].pc = "idle")
          => \A t \in DOMAIN tasks : Publications(ROBOT_ID, t) = 1

\* C29: the writes handle_robot_event makes for a DROP_COMPLETED event become
\* visible together: no reader of the tasks table is answered with a task
\* whose current_step is DROP_COMPLETED and whose status is not completed.
C29_AtomicEventUpdate ==
    \A row \in response : row.current_step = "DROP_COMPLETED" => row.status = "completed"

\* C30: an assignment delivered while fsm_state is IDLE sets current_task to
\* the message, robot_state.task_id to its task id, robot_state.status to busy
\* and fsm_state to FOLLOW_LINE, publishes a status update, and the callback
\* returns without raising.
C30_AcceptAssignment ==
    [][\A a \in Agents :
          (Delivered(a) /\ fsm_state[a] = "IDLE")
              => /\ current_task'[a] = <<Head(inbox[a])>>
                 /\ robot_state'[a].task_id = Head(inbox[a]).task_id
                 /\ robot_state'[a].status = "busy"
                 /\ fsm_state'[a] = "FOLLOW_LINE"
                 /\ Len(bus') = Len(bus) + 1 /\ bus'[Len(bus')].topic = "status"
                 /\ ~cb_raised'[a]]_vars

\* The state a step of the FSM thread leaves, by the table of fsm_loop: the
\* current state, the wide-marker flag, the presence of a task and, at the
\* end of a scan, its result
Transition(a) ==
    LET st == fsm_state[a]
    IN CASE pc[a] = "top" /\ st = "FOLLOW_LINE" ->
                {IF wide_black_detected[a] THEN "AT_TARGET" ELSE st}
         [] pc[a] = "top" /\ st = "AT_TARGET" -> {"SCAN_QR"}
         [] pc[a] = "top" /\ st = "SCAN_QR" -> {IF current_task[a] = <<>> THEN "ERROR" ELSE st}
         [] pc[a] = "top" /\ st = "ALIGN" -> {"PICK_SIM"}
         [] pc[a] = "top" /\ st = "DELIVER" ->
                {IF wide_black_detected[a] THEN "DROP_SIM" ELSE st}
         [] pc[a] = "scan" -> {"ALIGN", "ERROR"}
         [] pc[a] = "dwell" /\ st = "PICK_SIM" -> {"DELIVER"}
         [] pc[a] = "dwell" /\ st \in {"DROP_SIM", "ERROR"} -> {"IDLE"}
         [] OTHER -> {st}

\* C31: an iteration of fsm_loop that starts in ALIGN leaves the FSM in
\* PICK_SIM whether align_done is set or not and whatever notification lines
\* have arrived; no step of the FSM leaves ALIGN for another state, and the
\* state every step of the FSM thread leaves is the one of the table, in which
\* align_done does not occur (a step in which the thread ends leaves the state
\* as it is); the FSM thread never writes align_done.
C31_AlignUnconditional ==
    [][\A a \in Agents :
          /\ (fsm_state[a] = "ALIGN" /\ fsm_loop(a)) => fsm_state'[a] = "PICK_SIM"
          /\ (fsm_state[a] = "ALIGN" /\ fsm_state'[a] # "ALIGN") => fsm_state'[a] = "PICK_SIM"
          /\ (fsm_loop(a) \/ fsm_dwell(a) \/ (pc'[a] # pc[a] /\ pc'[a] # "dead"))
                => /\ fsm_state'[a] \in Transition(a)
                   /\ align_done'[a] = align_done[a]
          /\ (pc[a] # "dead" /\ pc'[a] = "dead") => fsm_state'[a] = fsm_state[a]
          /\ (fsm_state[a] = "ALIGN" /\ pc[a] = "top" /\ Room(a, 2))
                => ENABLED fsm_loop(a)]_vars

\* The FSM has gone through ALIGN to PICK_SIM: the Arduino has sent lines, none
\* of them ALIGN_OK
C31_Witness ==
    \E a \in Agents :
        /\ fsm_state[a] = "PICK_SIM"
        /\ visited[a][Len(visited[a]) - 1] = "ALIGN"
        /\ ~align_done[a]
        /\ notes[a] = MaxNotify

\* The FSM thread of agent a can take its next step: an iteration, the return
\* of the scan or the rest of a branch after its sleep
FsmStep(a) ==
    \/ fsm_loop(a)
    \/ fsm_dwell(a)
    \/ \E err \in BOOLEAN, code \in QrCodes \cup {None}, q \in BOOLEAN : fsm_scan(a, err, code, q)

\* C32: a task cycle always comes back to IDLE.  Stated so that a finite run
\* refutes it: as long as a cycle is open (fsm_state is not IDLE) the FSM thread
\* is alive and, given room on the bus, its next step is enabled with no input
\* but the wide marker; each such step stays in FOLLOW_LINE or DELIVER only
\* until the marker has arrived and otherwise moves on in the table, whose
\* paths all end in IDLE.
C32_CycleTermination ==
    \A a \in Agents :
        (pc[a] # "off" /\ fsm_state[a] # "IDLE")
            => /\ pc[a] # "dead"
               /\ Room(a, 3) => ENABLED FsmStep(a)

\* Task t is dispatched in this step: its assignment is handed to a robot
Dispatched(t) ==
    \E a \in Agents :
        /\ Len(inbox'[a]) > Len(inbox[a])
        /\ inbox'[a][Len(inbox'[a])].task_id = t

\* C33: a task is never dispatched while an older task of equal or better
\* priority is still pending.  The tasks table of Backend.py has no priority
\* column, so all tasks are of equal priority and the order is that of
\* created_at, which is that of task_id.
C33_DispatchOrder ==
    [][\A t \in DOMAIN tasks' :
          Dispatched(t)
              => \A i \in DOMAIN tasks' :
                    (i < t /\ tasks'[i].created_at <= tasks'[t].created_at)
                        => tasks'[i].status # "pending"]_vars

\* The events agent a publishes in this step
NewEvents(a) ==
    IF net_alive[a] /\ Len(bus') > Len(bus)
    THEN SelectSeq(SubSeq(bus', Len(bus) + 1, Len(bus')), LAMBDA m : m.topic = "events")
    ELSE <<>>

\* C34: every event the robot publishes while a cycle is open (fsm_state is
\* not IDLE) carries the id of the task it accepted; robot_state.task_id is
\* cleared only in a step that has published DROP_COMPLETED for it, or after.
C34_TaskIdentity ==
    [][\A a \in Agents :
          /\ (fsm_state[a] # "IDLE" /\ pc[a] # "off")
                => \A i \in DOMAIN NewEvents(a) :
                      NewEvents(a)[i].task_id = current_task[a][1].task_id
          /\ (robot_state[a].task_id # None /\ robot_state'[a].task_id = None)
                => drops'[robot_state[a].task_id] > 0]_vars

\* C35: an assignment without task_id delivered while the robot is IDLE
\* leaves fsm_state IDLE, current_task as it was (empty if no task was taken
\* before), and robot_state (task_id, status) unchanged.
C35_MalformedAssignment ==
    [][\A a \in Agents :
          (Delivered(a) /\ fsm_state[a] = "IDLE" /\ Head(inbox[a]).task_id = KeyAbsent)
              => /\ fsm_state'[a] = "IDLE"
                 /\ current_task'[a] = current_task[a]
                 /\ robot_state'[a] = robot_state[a]]_vars

\* Position of a status of FlaskBackend.py on the walk of a task
FlaskRank(status) ==
    CASE status = "pending" -> 0
      [] status = "in_progress" -> 1
      [] status = "completed" -> 2
      [] OTHER -> 0 - 1

\* C36: no operation of FlaskBackend.py (create_task, update_task, a consumed
\* status message) moves a task's status backward; a completed task stays
\* completed and keeps its completed_at.
C36_FlaskMonotonic ==
    [][\A i \in DOMAIN flask_tasks :
          /\ FlaskRank(flask_tasks'[i].status) >= FlaskRank(flask_tasks[i].status)
          /\ flask_tasks[i].status = "completed"
                => /\ flask_tasks'[i].status = "completed"
                   /\ flask_tasks'[i].completed_at = flask_tasks[i].completed_at]_vars

\* C37: under every interleaving of status_publisher, battery_simulator and
\* the task callback of serial-Test.py, robot_state.battery stays within
\* 10..100 and x_pos, y_pos stay within 0..10.
C37_SimRanges ==
    /\ sim_state.battery \in 10..100
    /\ sim_state.x_pos \in 0..10
    /\ sim_state.y_pos \in 0..10

\* The battery is at its floor while battery_simulator holds a larger value
\* it read earlier and has not stored yet, and the robot has executed a task
\* at the edge of the grid
C37_Witness ==
    /\ sim_state.battery = 10
    /\ sim_thread["battery_simulator"].pc = "store"
    /\ sim_thread["battery_simulator"].read > sim_state.battery
    /\ sim_thread["on_message"].read > 0
    /\ sim_state.x_pos = 10

====
